---- MODULE Spec2Model ----
(***************************************************************************)
(* Threat-intelligence connectors of opencti-platform/connectors: the      *)
(* ingestion cycle of the ProofPoint ET Reputation connector and of the    *)
(* LastInfoSec connector (state read, fetch, STIX generation, bundle       *)
(* sending, cursor write), and the record mappers of the Intel471,         *)
(* MalBeacon and ShadowServer connectors.                                  *)
(*                                                                         *)
(* One unit runs in a behaviour: Init picks it (variable unit), and every  *)
(* action is guarded by the unit it belongs to.                            *)
(***************************************************************************)
EXTENDS Integers, Sequences, FiniteSets, TLC

VARIABLES
    unit,                       \* the connector (or the function of it) this behaviour runs
    now,                        \* wall clock (epoch seconds, abstracted)
    state,                      \* persisted connector state: <<>> is None, <<t>> is {"last_run": t}
    pc,                         \* position of the connector's main thread
    \* ---- ProofPoint ET Reputation ----
    extra_min_score,            \* config.extra_min_score
    extra_create_indicator,     \* config.extra_create_indicator
    connector_start_timestamp,  \* process_message local
    current_state,              \* process_message local (helper.get_state())
    tasks,                      \* collection -> "none" | "running" | "done" | "skipped" | "handled"
    completed,                  \* as_completed order of the finished, not yet taken futures
    collection,                 \* collection being handled by the main thread
    task_result,                \* completed_task.result()
    work_id,                    \* work initiated for the collection being handled
    prepared_objects,           \* result of _generate_stix_from_reputation_data
    bundle,                     \* objects of the last bundle handed to send_stix2_bundle
    works,                      \* works initiated in this cycle, by work id: the collection named,
                                \* the bundles sent under the work, the to_processed calls
    \* ---- LastInfoSec ----
    timestamp,                  \* run() local
    messages,                   \* lastinfosec_data["message"] items still to import
    \* ---- mappers called on one input (Intel471, MalBeacon) ----
    source,                     \* the argument of the call
    stix_object_list,               \* the list the call returned
    previous_bundle,            \* objects of the bundle an earlier call on the same input gave
    \* ---- history of the running cycle (read by the properties only) ----
    state_at_start,             \* persisted state when the cycle started
    set_state_calls,            \* number of helper.set_state calls in the cycle
    bundles_sent,               \* number of bundle submissions that returned in the cycle
    cycle_failed,               \* a fetch returned an error, or generation / sending raised
    cycle_end,                   \* how the last cycle ended: "none" | "committed" | "uncommitted" | "aborted" | "stopped"
    consecutive_failures,       \* cycles in a row that ended in an except Exception branch
    session_sends,              \* calls of requests.Session.send made by fetch_data
    tlp,                        \* self.tlp of an enrichment connector ("None": None)
    max_tlp,                    \* config.max_tlp of an enrichment connector
    api_requests                \* requests made to the enrichment API for the message in hand

vars == <<unit, now, state, pc, extra_min_score, extra_create_indicator,
          connector_start_timestamp, current_state, tasks, completed, collection,
          task_result, work_id, prepared_objects, bundle, works, timestamp, messages,
          source, stix_object_list, previous_bundle,
          state_at_start, set_state_calls, bundles_sent, cycle_failed, cycle_end, consecutive_failures, session_sends,
          tlp, max_tlp, api_requests>>

(***************************************************************************)
(* Bounds of the model.                                                    *)
(***************************************************************************)
MaxTime == 5          \* the clock stops the model here
MaxRecords == 2       \* entities in a reputation list given to the STIX generation
CycleRecords == 1     \* entities in a reputation list fetched inside a full cycle
MaxMessages == 2     \* items of a LastInfoSec "message" list
MaxObjects == 3      \* objects in a list handed to the sender on its own
MaxItems == 2        \* items of an Intel 471 "indicators" list
MaxBeacons == 2      \* entries of a Malbeacon C2 answer
RetryCeiling == 2     \* consecutive failed cycles the clock of the model has room for
MaxElements == 2      \* rows of a ShadowServer report
MaxEnrichments == 2   \* enrichment messages handled by one connector instance

Range(f) == {f[i] : i \in DOMAIN f}

(***************************************************************************)
(* ProofPoint ET Reputation: data.                                         *)
(***************************************************************************)
ReputationCollections == {"IPv4-Addr", "Domain-Name"}

EntityNames(c) ==
    IF c = "IPv4-Addr" THEN <<"1.2.3.4", "5.6.7.8", "9.9.9.9">>
    ELSE <<"evil.com", "bad.org", "worse.net">>

Categories == {"spam", "botnet"}
Scores == {-1, 20, 101}
MinScores == {-1, 20, 21}

\* A score_by_category dict: a set of <<category, score>> pairs, one per key.
ScoreMaps ==
    {m \in SUBSET (Categories \X Scores) :
        \A p, q \in m : p[1] = q[1] => p = q}

Keys(m) == {p[1] : p \in m}
Values(m) == {p[2] : p \in m}

\* The items data_list.items() can hold for one entity: conforms tells whether
\* the pydantic model accepts the item (one it rejects carries no usable scores).
RawRecords(e) ==
    {[entity |-> e, conforms |-> TRUE, scores |-> m] : m \in ScoreMaps}
    \cup {[entity |-> e, conforms |-> FALSE, scores |-> {}]}

\* data_list is a dict: no entity occurs twice, and items() iterates in
\* insertion order. The lists over the first n entity names, in that order.
RECURSIVE DataLists(_, _)
DataLists(c, n) ==
    IF n = 0 THEN {<<>>}
    ELSE LET shorter == DataLists(c, n - 1)
         IN  shorter \cup
             {Append(d, r) : d \in shorter, r \in RawRecords(EntityNames(c)[n])}

(***************************************************************************)
(* ProofPoint ET Reputation: the STIX objects (ConverterToStix).           *)
(* An object is a record; id is the object's STIX id.  The ids are         *)
(* content-derived: an observable's from its type and value, an            *)
(* indicator's from its pattern, a relationship's from its type and ends.  *)
(***************************************************************************)
make_author ==
    [type |-> "identity", id |-> "identity--proofpoint-et-reputation"]

make_marking_definition_tlp_amber_strict ==
    [type |-> "marking-definition", id |-> "marking-definition--tlp-amber-strict"]

ObservableType(c) == IF c = "IPv4-Addr" THEN "ipv4-addr" ELSE "domain-name"

make_observable(value, score, labels, c) ==
    [type |-> ObservableType(c), id |-> ObservableType(c) \o "--" \o value,
     value |-> value, score |-> score, labels |-> labels]

make_indicator(value, score, labels, c) ==
    [type |-> "indicator",
     id |-> "indicator--[" \o ObservableType(c) \o ":value = '" \o value \o "']",
     name |-> value, score |-> score, labels |-> labels]

make_relationship(source_object, relationship_type, target_object) ==
    [type |-> "relationship",
     id |-> "relationship--" \o relationship_type \o "--" \o source_object.id
                \o "--" \o target_object.id,
     relationship_type |-> relationship_type,
     source_ref |-> source_object.id, target_ref |-> target_object.id]

(***************************************************************************)
(* ProofPoint ET Reputation: _generate_reputation_model and                *)
(* _generate_stix_from_reputation_data.                                    *)
(***************************************************************************)
\* The generator yields a model for every item the pydantic model accepts and
\* skips (logs) the others.
GenerateReputationModel(data_list) ==
    SelectSeq(data_list, LAMBDA r : r.conforms)

\* HighestScore taking the smallest value (min for max).
HighestScore_Min(scores) ==
    CHOOSE m \in Values(scores) : \A s \in Values(scores) : m <= s

\* max(model.score_by_category.values())
HighestScore(scores) ==
    CHOOSE m \in Values(scores) : \A s \in Values(scores) : s <= m

\* 100 if highest_score > 100 else highest_score
HighestScoreConverted(highest_score) ==
    IF highest_score > 100 THEN 100 ELSE highest_score

\* list(model.score_by_category.keys()): the keys of a dict, each once.
ListCategories(scores) == Keys(scores)

\* max() of an empty sequence raises ValueError, which nothing in
\* _generate_stix_from_reputation_data catches.
ModelRaises(model) == model.scores = {}

\* ModelObjects whose score filter leaves the relationship in the list.
ModelObjects_RelationshipKept(model, c, min_score, create_indicator) ==
    LET score == HighestScoreConverted(HighestScore(model.scores))
        observable == make_observable(model.entity, score, ListCategories(model.scores), c)
        indicator == make_indicator(model.entity, score, ListCategories(model.scores), c)
        relationship == make_relationship(indicator, "based-on", observable)
    IN  IF create_indicator
        THEN IF min_score > score THEN <<relationship>>
             ELSE <<observable, indicator, relationship>>
        ELSE IF min_score > score THEN <<>> ELSE <<observable>>

\* ModelObjects whose filter also drops a score equal to the minimum.
ModelObjects_EqualDropped(model, c, min_score, create_indicator) ==
    LET score == HighestScoreConverted(HighestScore(model.scores))
        observable == make_observable(model.entity, score, ListCategories(model.scores), c)
        indicator == make_indicator(model.entity, score, ListCategories(model.scores), c)
        relationship == make_relationship(indicator, "based-on", observable)
    IN  IF min_score >= score THEN <<>>
        ELSE IF create_indicator THEN <<observable, indicator, relationship>>
        ELSE <<observable>>

\* One pass of the for loop over a model: the objects it appends.
ModelObjects(model, c, min_score, create_indicator) ==
    LET highest_score_converted == HighestScoreConverted(HighestScore(model.scores))
        list_categories == ListCategories(model.scores)
        observable == make_observable(model.entity, highest_score_converted, list_categories, c)
        indicator == make_indicator(model.entity, highest_score_converted, list_categories, c)
        relationship == make_relationship(indicator, "based-on", observable)
    IN  IF min_score > highest_score_converted THEN <<>>
        ELSE IF create_indicator THEN <<observable, indicator, relationship>>
        ELSE <<observable>>

RECURSIVE AppendModels(_, _, _, _, _)
AppendModels(stix_objects, models, c, min_score, create_indicator) ==
    IF models = <<>> THEN stix_objects
    ELSE AppendModels(stix_objects \o ModelObjects(Head(models), c, min_score, create_indicator),
                      Tail(models), c, min_score, create_indicator)

GenerateRaises(data_list) ==
    \E i \in DOMAIN GenerateReputationModel(data_list) :
        ModelRaises(GenerateReputationModel(data_list)[i])

\* The list returned when nothing raises: author, marking, then each model's objects.
GenerateStixFromReputationData(data_list, c, min_score, create_indicator) ==
    AppendModels(<<make_author, make_marking_definition_tlp_amber_strict>>,
                 GenerateReputationModel(data_list), c, min_score, create_indicator)

(***************************************************************************)
(* ProofPoint ET Reputation: _process_send_stix_to_opencti.                *)
(***************************************************************************)
\* UniqueObjects keeping, for an id, the object that comes last.
RECURSIVE UniqueObjects_KeepLast(_, _)
UniqueObjects_KeepLast(objects, unique_ids) ==
    IF objects = <<>> THEN <<>>
    ELSE IF \E i \in 2..Len(objects) : objects[i].id = Head(objects).id
         THEN UniqueObjects_KeepLast(Tail(objects), unique_ids)
         ELSE <<Head(objects)>> \o UniqueObjects_KeepLast(Tail(objects), unique_ids)

\* UniqueObjects without the filter.
UniqueObjects_Unfiltered(objects, unique_ids) == objects

\* [obj for obj in prepared_objects if obj.id not in unique_ids and not unique_ids.add(obj.id)]
RECURSIVE UniqueObjects(_, _)
UniqueObjects(objects, unique_ids) ==
    IF objects = <<>> THEN <<>>
    ELSE LET obj == Head(objects)
         IN  IF obj.id \in unique_ids
             THEN UniqueObjects(Tail(objects), unique_ids)
             ELSE <<obj>> \o UniqueObjects(Tail(objects), unique_ids \cup {obj.id})

\* The objects of the bundle handed to helper.send_stix2_bundle.
StixObjectsBundle(objects) == UniqueObjects(objects, {})

(***************************************************************************)
(* ProofPoint ET Reputation: process_message and _process_reputation_tasks.*)
(***************************************************************************)
config == <<extra_min_score, extra_create_indicator>>
lastinfosec_locals == <<timestamp, messages>>
enrichment_locals == <<tlp, max_tlp, api_requests>>
mapper_locals == <<source, stix_object_list, previous_bundle>>
not_proofpoint == <<lastinfosec_locals, mapper_locals>>
history == <<state_at_start, set_state_calls, bundles_sent, cycle_failed, cycle_end>>

\* The work initiate_work creates: its friendly name holds the collection.
NewWork(c) == [collection |-> c, bundles |-> 0, processed |-> 0]

NoTasks == [c \in ReputationCollections |-> "none"]

\* What a fetched reputation list can be inside a cycle.
FetchedData(c) == DataLists(c, CycleRecords)

\* The locals of process_message are gone when it returns or the process exits.
ProofpointReturns ==
    /\ pc' = "idle"
    /\ connector_start_timestamp' = 0
    /\ current_state' = <<>>
    /\ tasks' = NoTasks
    /\ completed' = <<>>
    /\ collection' = "none"
    /\ task_result' = <<>>
    /\ work_id' = 0
    /\ prepared_objects' = <<>>
    /\ bundle' = <<>>

\* process_message up to the submission of the two fetch tasks: get_now,
\* helper.get_state, executor.submit twice.
PPBegin ==
    /\ unit = "proofpoint" /\ pc = "idle"
    /\ now + 2 <= MaxTime
    /\ connector_start_timestamp' = now
    /\ current_state' = state
    /\ tasks' = [c \in ReputationCollections |-> "running"]
    /\ completed' = <<>>
    /\ pc' = "as_completed"
    /\ works' = <<>>
    /\ state_at_start' = state
    /\ set_state_calls' = 0
    /\ bundles_sent' = 0
    /\ cycle_failed' = FALSE
    /\ cycle_end' = "none"
    /\ UNCHANGED <<unit, now, state, config, collection, task_result, work_id,
                   prepared_objects, bundle, not_proofpoint>>
    /\ UNCHANGED <<consecutive_failures, session_sends>>
    /\ UNCHANGED enrichment_locals

\* PPFetchDone in which the worker thread also initiates the work.
PPFetchDone_InitiatesWork(c) ==
    /\ unit = "proofpoint" /\ pc # "idle"
    /\ tasks[c] = "running"
    /\ tasks' = [tasks EXCEPT ![c] = "done"]
    /\ completed' = Append(completed, c)
    /\ works' = Append(works, NewWork(c))
    /\ now' = now + 1
    /\ UNCHANGED <<unit, state, pc, config, connector_start_timestamp, current_state,
                   collection, task_result, work_id, prepared_objects, bundle,
                   not_proofpoint, history>>
    /\ UNCHANGED <<consecutive_failures, session_sends>>
    /\ UNCHANGED enrichment_locals

\* A worker thread finishes its fetch (client.proofpoint_get_*_reputation): the
\* future completes, at any point of the main thread's loop.
PPFetchDone(c) ==
    /\ unit = "proofpoint" /\ pc # "idle"
    /\ tasks[c] = "running"
    /\ tasks' = [tasks EXCEPT ![c] = "done"]
    /\ completed' = Append(completed, c)
    /\ now' = now + 1
    /\ UNCHANGED <<unit, state, pc, config, connector_start_timestamp, current_state,
                   collection, task_result, work_id, prepared_objects, bundle, works,
                   not_proofpoint, history>>
    /\ UNCHANGED <<consecutive_failures, session_sends>>
    /\ UNCHANGED enrichment_locals

\* PPTakeError in which the error result ends the loop.
PPTakeError_LeavesLoop ==
    /\ unit = "proofpoint" /\ pc = "as_completed"
    /\ completed # <<>>
    /\ ProofpointReturns
    /\ cycle_failed' = TRUE
    /\ cycle_end' = "aborted"
    /\ UNCHANGED <<unit, now, state, config, works, not_proofpoint, state_at_start,
                   set_state_calls, bundles_sent>>
    /\ consecutive_failures' = consecutive_failures + 1
    /\ UNCHANGED session_sends
    /\ UNCHANGED enrichment_locals

\* as_completed yields a future whose result holds "error": logged, continue.
PPTakeError ==
    /\ unit = "proofpoint" /\ pc = "as_completed"
    /\ completed # <<>>
    /\ tasks' = [tasks EXCEPT ![Head(completed)] = "skipped"]
    /\ completed' = Tail(completed)
    /\ cycle_failed' = TRUE
    /\ UNCHANGED <<unit, now, state, pc, config, connector_start_timestamp, current_state,
                   collection, task_result, work_id, prepared_objects, bundle, works,
                   not_proofpoint, state_at_start, set_state_calls, bundles_sent,
                   cycle_end>>
    /\ UNCHANGED <<consecutive_failures, session_sends>>
    /\ UNCHANGED enrichment_locals

\* as_completed yields a future whose result is a reputation list.
PPTakeResult ==
    /\ unit = "proofpoint" /\ pc = "as_completed"
    /\ completed # <<>>
    /\ collection' = Head(completed)
    /\ \E data_list \in FetchedData(Head(completed)) : task_result' = data_list
    /\ completed' = Tail(completed)
    /\ pc' = "initiate"
    /\ UNCHANGED <<unit, now, state, config, connector_start_timestamp, current_state,
                   tasks, work_id, prepared_objects, bundle, works, not_proofpoint,
                   history>>
    /\ UNCHANGED <<consecutive_failures, session_sends>>
    /\ UNCHANGED enrichment_locals

\* _process_initiate_work: helper.api.work.initiate_work returns a new work id.
PPInitiateWork ==
    /\ unit = "proofpoint" /\ pc = "initiate"
    /\ work_id' = Len(works) + 1
    /\ works' = Append(works, NewWork(collection))
    /\ pc' = "generate"
    /\ UNCHANGED <<unit, now, state, config, connector_start_timestamp, current_state,
                   tasks, completed, collection, task_result, prepared_objects, bundle,
                   not_proofpoint, history>>
    /\ UNCHANGED <<consecutive_failures, session_sends>>
    /\ UNCHANGED enrichment_locals

\* initiate_work raises: outside the try of the loop, so the exception leaves
\* _process_reputation_tasks and is logged by process_message's except Exception.
PPInitiateWorkRaises ==
    /\ unit = "proofpoint" /\ pc = "initiate"
    /\ ProofpointReturns
    /\ cycle_end' = "aborted"
    /\ UNCHANGED <<unit, now, state, config, works, not_proofpoint, state_at_start,
                   set_state_calls, bundles_sent, cycle_failed>>
    /\ consecutive_failures' = consecutive_failures + 1
    /\ UNCHANGED session_sends
    /\ UNCHANGED enrichment_locals

\* _generate_stix_from_reputation_data, inside the try: a raise is logged.
PPGenerate ==
    /\ unit \in {"proofpoint", "generate_stix"} /\ pc = "generate"
    /\ IF GenerateRaises(task_result)
       THEN /\ prepared_objects' = <<>>
            /\ cycle_failed' = TRUE
            /\ pc' = "complete"
       ELSE /\ prepared_objects' = GenerateStixFromReputationData(
                    task_result, collection, extra_min_score, extra_create_indicator)
            /\ cycle_failed' = cycle_failed
            /\ pc' = "send"
    /\ UNCHANGED <<unit, now, state, config, connector_start_timestamp, current_state,
                   tasks, completed, collection, task_result, work_id, bundle, works,
                   not_proofpoint, state_at_start, set_state_calls, bundles_sent,
                   cycle_end>>
    /\ UNCHANGED <<consecutive_failures, session_sends>>
    /\ UNCHANGED enrichment_locals

\* _process_send_stix_to_opencti: the bundle of unique objects is sent.
PPSend ==
    /\ unit \in {"proofpoint", "generate_stix", "send_stix"} /\ pc = "send"
    /\ IF prepared_objects # <<>>
       THEN /\ bundle' = StixObjectsBundle(prepared_objects)
            /\ bundles_sent' = bundles_sent + 1
            /\ works' = [works EXCEPT ![work_id].bundles = @ + 1]
       ELSE UNCHANGED <<bundle, bundles_sent, works>>
    /\ pc' = "complete"
    /\ UNCHANGED <<unit, now, state, config, connector_start_timestamp, current_state,
                   tasks, completed, collection, task_result, work_id, prepared_objects,
                   not_proofpoint, state_at_start, set_state_calls, cycle_failed,
                   cycle_end>>
    /\ UNCHANGED <<consecutive_failures, session_sends>>
    /\ UNCHANGED enrichment_locals

\* PPSendRaises in which the raise goes to the next future past the finally.
PPSendRaises_WorkLeftOpen ==
    /\ unit \in {"proofpoint", "generate_stix", "send_stix"} /\ pc = "send"
    /\ prepared_objects # <<>>
    /\ cycle_failed' = TRUE
    /\ tasks' = [c \in ReputationCollections |->
                    IF c = collection THEN "handled" ELSE tasks[c]]
    /\ collection' = "none"
    /\ task_result' = <<>>
    /\ work_id' = 0
    /\ prepared_objects' = <<>>
    /\ bundle' = <<>>
    /\ pc' = "as_completed"
    /\ UNCHANGED <<unit, now, state, config, connector_start_timestamp, current_state,
                   completed, works,
                   not_proofpoint, state_at_start, set_state_calls, bundles_sent,
                   cycle_end>>
    /\ UNCHANGED <<consecutive_failures, session_sends>>
    /\ UNCHANGED enrichment_locals

\* helper.send_stix2_bundle raises, inside the try: logged.
PPSendRaises ==
    /\ unit \in {"proofpoint", "generate_stix", "send_stix"} /\ pc = "send"
    /\ prepared_objects # <<>>
    /\ cycle_failed' = TRUE
    /\ pc' = "complete"
    /\ UNCHANGED <<unit, now, state, config, connector_start_timestamp, current_state,
                   tasks, completed, collection, task_result, work_id, prepared_objects,
                   bundle, works,
                   not_proofpoint, state_at_start, set_state_calls, bundles_sent,
                   cycle_end>>
    /\ UNCHANGED <<consecutive_failures, session_sends>>
    /\ UNCHANGED enrichment_locals

\* finally: if work_id: _process_complete_work (work.to_processed); next future.
PPCompleteWork ==
    /\ unit = "proofpoint" /\ pc = "complete"
    /\ works' = IF work_id # 0 THEN [works EXCEPT ![work_id].processed = @ + 1] ELSE works
    /\ tasks' = [tasks EXCEPT ![collection] = "handled"]
    /\ collection' = "none"
    /\ task_result' = <<>>
    /\ work_id' = 0
    /\ prepared_objects' = <<>>
    /\ bundle' = <<>>
    /\ pc' = "as_completed"
    /\ UNCHANGED <<unit, now, state, config, connector_start_timestamp, current_state,
                   completed, not_proofpoint, history>>
    /\ UNCHANGED <<consecutive_failures, session_sends>>
    /\ UNCHANGED enrichment_locals

\* work.to_processed raises in the finally: the exception leaves the loop.
PPCompleteWorkRaises ==
    /\ unit = "proofpoint" /\ pc = "complete"
    /\ ProofpointReturns
    /\ cycle_end' = "aborted"
    /\ UNCHANGED <<unit, now, state, config, works, not_proofpoint, state_at_start,
                   set_state_calls, bundles_sent, cycle_failed>>
    /\ consecutive_failures' = consecutive_failures + 1
    /\ UNCHANGED session_sends
    /\ UNCHANGED enrichment_locals

\* NewState holding the time at which it is stored.
NewState_TimeOfTheWrite(start_timestamp) == <<now>>

\* The value process_message stores: current_state["last_run"] = connector_start_timestamp.
NewState(start_timestamp) == <<start_timestamp>>

\* Both futures handled: _process_reputation_tasks returns, process_message
\* stores last_run and returns.
PPSetState ==
    /\ unit = "proofpoint" /\ pc = "as_completed"
    /\ \A c \in ReputationCollections : tasks[c] \in {"skipped", "handled"}
    /\ state' = NewState(connector_start_timestamp)
    /\ set_state_calls' = set_state_calls + 1
    /\ cycle_end' = "committed"
    /\ ProofpointReturns
    /\ UNCHANGED <<unit, now, config, works, not_proofpoint, state_at_start,
                   bundles_sent, cycle_failed>>
    /\ consecutive_failures' = 0
    /\ UNCHANGED session_sends
    /\ UNCHANGED enrichment_locals

\* KeyboardInterrupt / SystemExit at any point of the cycle: sys.exit(0).  The
\* connector is started again later and its scheduler calls process_message.
PPStop ==
    /\ unit = "proofpoint" /\ pc # "idle"
    /\ ProofpointReturns
    /\ cycle_end' = "stopped"
    /\ UNCHANGED <<unit, now, state, config, works, not_proofpoint, state_at_start,
                   set_state_calls, bundles_sent, cycle_failed>>
    /\ consecutive_failures' = 0
    /\ UNCHANGED session_sends
    /\ UNCHANGED enrichment_locals

ProofpointNext ==
    \/ PPBegin
    \/ \E c \in ReputationCollections : PPFetchDone(c)
    \/ PPTakeError
    \/ PPTakeResult
    \/ PPInitiateWork
    \/ PPInitiateWorkRaises
    \/ PPGenerate
    \/ PPSend
    \/ PPSendRaises
    \/ PPCompleteWork
    \/ PPCompleteWorkRaises
    \/ PPSetState
    \/ PPStop

HistoryInit ==
    /\ state_at_start = <<>>
    /\ set_state_calls = 0
    /\ bundles_sent = 0
    /\ cycle_failed = FALSE
    /\ cycle_end = "none"
    /\ consecutive_failures = 0
    /\ session_sends = 0
    /\ api_requests = 0

\* Not an enrichment connector: no TLP is read and none is configured.
NoMarkings == tlp = "None" /\ max_tlp = "None"

\* No cycle is running: the locals of every connector hold nothing.
NoLocals ==
    /\ connector_start_timestamp = 0
    /\ current_state = <<>>
    /\ tasks = NoTasks
    /\ completed = <<>>
    /\ collection = "none"
    /\ task_result = <<>>
    /\ work_id = 0
    /\ prepared_objects = <<>>
    /\ bundle = <<>>
    /\ works = <<>>
    /\ timestamp = 0
    /\ messages = 0
    /\ source = <<>>
    /\ stix_object_list = <<>>
    /\ previous_bundle = <<>>

InitProofpoint ==
    /\ unit = "proofpoint"
    /\ now = 1
    /\ state = <<>>
    /\ pc = "idle"
    /\ extra_min_score \in MinScores
    /\ extra_create_indicator \in BOOLEAN
    /\ NoLocals
    /\ HistoryInit
    /\ NoMarkings

\* _generate_stix_from_reputation_data and _process_send_stix_to_opencti on
\* their own, as _process_reputation_tasks calls them after initiating a work,
\* over every reputation list of up to MaxRecords entities.
InitGenerateStix ==
    /\ unit = "generate_stix"
    /\ now = 1
    /\ state = <<>>
    /\ pc = "generate"
    /\ extra_min_score \in MinScores
    /\ extra_create_indicator \in BOOLEAN
    /\ connector_start_timestamp = 1
    /\ current_state = <<>>
    /\ collection \in ReputationCollections
    /\ tasks = [c \in ReputationCollections |-> IF c = collection THEN "done" ELSE "running"]
    /\ completed = <<>>
    /\ task_result \in DataLists(collection, MaxRecords)
    /\ work_id = 1
    /\ prepared_objects = <<>>
    /\ bundle = <<>>
    /\ works = <<NewWork(collection)>>
    /\ timestamp = 0
    /\ messages = 0
    /\ source = <<>>
    /\ stix_object_list = <<>>
    /\ previous_bundle = <<>>
    /\ HistoryInit
    /\ NoMarkings

\* Objects prepared for one cycle that can share an id: the same entity seen
\* with different scores and with or without labels.
PreparedObservables ==
    {make_observable(value, score, labels, "IPv4-Addr") :
        value \in {"1.2.3.4", "5.6.7.8"}, score \in {20, 100},
        labels \in {{}, {"spam"}}}

RECURSIVE PreparedLists(_)
PreparedLists(n) ==
    IF n = 0 THEN {<<>>}
    ELSE LET shorter == PreparedLists(n - 1)
         IN  shorter \cup {Append(l, obj) : l \in {k \in shorter : Len(k) = n - 1},
                                            obj \in PreparedObservables}

\* _process_send_stix_to_opencti on its own, over every list of up to
\* MaxObjects prepared objects.
InitSendStix ==
    /\ unit = "send_stix"
    /\ now = 1
    /\ state = <<>>
    /\ pc = "send"
    /\ extra_min_score = 0
    /\ extra_create_indicator = FALSE
    /\ connector_start_timestamp = 1
    /\ current_state = <<>>
    /\ collection = "IPv4-Addr"
    /\ tasks = [c \in ReputationCollections |-> IF c = collection THEN "done" ELSE "running"]
    /\ completed = <<>>
    /\ task_result = <<>>
    /\ work_id = 1
    /\ prepared_objects \in PreparedLists(MaxObjects)
    /\ bundle = <<>>
    /\ works = <<NewWork(collection)>>
    /\ timestamp = 0
    /\ messages = 0
    /\ source = <<>>
    /\ stix_object_list = <<>>
    /\ previous_bundle = <<>>
    /\ HistoryInit
    /\ NoMarkings

(***************************************************************************)
(* LastInfoSec: run().                                                     *)
(***************************************************************************)
proofpoint_locals == <<connector_start_timestamp, tasks, completed, collection,
                       task_result, work_id, prepared_objects, bundle, works>>
not_lastinfosec == <<config, proofpoint_locals, mapper_locals>>

\* The loop body ends (a sleep, or exit(0) and a later restart).
LastInfoSecReturns ==
    /\ pc' = "idle"
    /\ timestamp' = 0
    /\ current_state' = <<>>
    /\ messages' = 0

\* timestamp = int(time.time()); current_state = helper.get_state()
LISBegin ==
    /\ unit = "lastinfosec" /\ pc = "idle"
    /\ now + 2 <= MaxTime
    /\ timestamp' = now
    /\ current_state' = state
    /\ pc' = "get"
    /\ state_at_start' = state
    /\ set_state_calls' = 0
    /\ bundles_sent' = 0
    /\ cycle_failed' = FALSE
    /\ cycle_end' = "none"
    /\ UNCHANGED <<unit, now, state, not_lastinfosec, messages>>
    /\ UNCHANGED <<consecutive_failures, session_sends>>
    /\ UNCHANGED enrichment_locals

\* requests.get(...).json() returns a dict with a "message" list.
LISGetMessage ==
    /\ unit = "lastinfosec" /\ pc = "get"
    /\ \E n \in 0..MaxMessages : messages' = n
    /\ now' = now + 1
    /\ pc' = "import"
    /\ UNCHANGED <<unit, state, not_lastinfosec, current_state, timestamp,
                   history>>
    /\ UNCHANGED <<consecutive_failures, session_sends>>
    /\ UNCHANGED enrichment_locals

\* requests.get(...).json() returns a dict without "message": the else branch
\* logs the run as successful and sleeps 300 s; it calls no set_state.
LISGetNoMessage ==
    /\ unit = "lastinfosec" /\ pc = "get"
    /\ now' = now + 2
    /\ cycle_end' = "uncommitted"
    /\ LastInfoSecReturns
    /\ UNCHANGED <<unit, state, not_lastinfosec, state_at_start,
                   set_state_calls, bundles_sent, cycle_failed>>
    /\ consecutive_failures' = 0
    /\ UNCHANGED session_sends
    /\ UNCHANGED enrichment_locals

\* LISGetRaises in which the exception ends the process.
LISGetRaises_Exits ==
    /\ unit = "lastinfosec" /\ pc = "get"
    /\ now' = now + 2
    /\ cycle_failed' = TRUE
    /\ cycle_end' = "aborted"
    /\ pc' = "exited"
    /\ timestamp' = 0
    /\ current_state' = <<>>
    /\ messages' = 0
    /\ consecutive_failures' = consecutive_failures + 1
    /\ UNCHANGED session_sends
    /\ UNCHANGED enrichment_locals
    /\ UNCHANGED <<unit, state, not_lastinfosec, state_at_start,
                   set_state_calls, bundles_sent>>

\* requests.get or .json() raises: except Exception logs and sleeps 60 s.
LISGetRaises ==
    /\ unit = "lastinfosec" /\ pc = "get"
    /\ now' = now + 2
    /\ cycle_failed' = TRUE
    /\ cycle_end' = "aborted"
    /\ LastInfoSecReturns
    /\ UNCHANGED <<unit, state, not_lastinfosec, state_at_start,
                   set_state_calls, bundles_sent>>
    /\ consecutive_failures' = consecutive_failures + 1
    /\ UNCHANGED session_sends
    /\ UNCHANGED enrichment_locals

\* LISImport with helper.set_state indented into the for loop.
LISImport_SetStateInLoop ==
    /\ unit = "lastinfosec" /\ pc = "import"
    /\ messages > 0
    /\ messages' = messages - 1
    /\ bundles_sent' = bundles_sent + 1
    /\ state' = NewState(timestamp)
    /\ set_state_calls' = set_state_calls + 1
    /\ UNCHANGED <<unit, now, pc, not_lastinfosec, current_state,
                   timestamp, state_at_start, cycle_failed, cycle_end>>
    /\ UNCHANGED <<consecutive_failures, session_sends>>
    /\ UNCHANGED enrichment_locals

\* One pass of the for loop: api.stix2.import_bundle_from_json(sdata) returns.
LISImport ==
    /\ unit = "lastinfosec" /\ pc = "import"
    /\ messages > 0
    /\ messages' = messages - 1
    /\ bundles_sent' = bundles_sent + 1
    /\ UNCHANGED <<unit, now, state, pc, not_lastinfosec, current_state,
                   timestamp, state_at_start, set_state_calls, cycle_failed, cycle_end>>
    /\ UNCHANGED <<consecutive_failures, session_sends>>
    /\ UNCHANGED enrichment_locals

\* import_bundle_from_json raises: except Exception logs and sleeps 60 s.
LISImportRaises ==
    /\ unit = "lastinfosec" /\ pc = "import"
    /\ messages > 0
    /\ now' = now + 1
    /\ cycle_failed' = TRUE
    /\ cycle_end' = "aborted"
    /\ LastInfoSecReturns
    /\ UNCHANGED <<unit, state, not_lastinfosec, state_at_start,
                   set_state_calls, bundles_sent>>
    /\ consecutive_failures' = consecutive_failures + 1
    /\ UNCHANGED session_sends
    /\ UNCHANGED enrichment_locals

\* After the for loop: helper.set_state({"last_run": timestamp}); sleep 3500 s.
LISSetState ==
    /\ unit = "lastinfosec" /\ pc = "import"
    /\ messages = 0
    /\ state' = NewState(timestamp)
    /\ set_state_calls' = set_state_calls + 1
    /\ now' = now + 1
    /\ cycle_end' = "committed"
    /\ LastInfoSecReturns
    /\ UNCHANGED <<unit, not_lastinfosec, state_at_start, bundles_sent,
                   cycle_failed>>
    /\ consecutive_failures' = 0
    /\ UNCHANGED session_sends
    /\ UNCHANGED enrichment_locals

\* KeyboardInterrupt / SystemExit: exit(0); the connector is started again later.
LISStop ==
    /\ unit = "lastinfosec" /\ pc # "idle"
    /\ cycle_end' = "stopped"
    /\ LastInfoSecReturns
    /\ UNCHANGED <<unit, now, state, not_lastinfosec, state_at_start,
                   set_state_calls, bundles_sent, cycle_failed>>
    /\ consecutive_failures' = 0
    /\ UNCHANGED session_sends
    /\ UNCHANGED enrichment_locals

LastInfoSecNext ==
    \/ LISBegin
    \/ LISGetMessage
    \/ LISGetNoMessage
    \/ LISGetRaises
    \/ LISImport
    \/ LISImportRaises
    \/ LISSetState
    \/ LISStop

InitLastInfoSec ==
    /\ unit = "lastinfosec"
    /\ now = 1
    /\ state = <<>>
    /\ pc = "idle"
    /\ extra_min_score = 0
    /\ extra_create_indicator = FALSE
    /\ NoLocals
    /\ HistoryInit
    /\ NoMarkings

(***************************************************************************)
(* Intel 471: IndicatorsMapper.map.                                        *)
(***************************************************************************)
\* str.strip().lower() on the family names of the model.
StripLower(name) ==
    CASE name = "Emotet" -> "emotet"
      [] name = "emotet " -> "emotet"
      [] name = "Qbot" -> "qbot"

\* An item of the feed.  description stands for every attribute copied from
\* the item as it is ("None" when the feed gives null); wellformed is FALSE
\* when one of the keys read at lines 16-25 is missing.
Intel471Items ==
    [family : {"Emotet", "emotet "}, description : {"None", "C2 server"},
     indicator_type : {"url", "unknown"}, indicator_data : {"http://a", "http://b"},
     wellformed : {TRUE}]
    \cup {[family |-> "Qbot", description |-> "None", indicator_type |-> "url",
           indicator_data |-> "http://a", wellformed |-> FALSE]}

NotAnItem == CHOOSE item \in Intel471Items : ~item.wellformed

RECURSIVE ItemLists(_)
ItemLists(n) ==
    IF n = 0 THEN {<<>>}
    ELSE LET shorter == ItemLists(n - 1)
         IN  shorter \cup {Append(l, item) : l \in {k \in shorter : Len(k) = n - 1},
                                             item \in Intel471Items}

\* The argument of map, a dict: indicatorTotalCount says whether it has that
\* key; indicators_key says whether it has the key "indicators" with a list
\* ("list"), with null ("null") or not at all ("absent"), and indicators is
\* that list; self holds the keys map reads when the dict is itself an item.
Intel471Sources ==
    {[indicatorTotalCount |-> TRUE, indicators_key |-> "list", indicators |-> l,
      self |-> NotAnItem] : l \in ItemLists(MaxItems)}
    \cup {[indicatorTotalCount |-> TRUE, indicators_key |-> k, indicators |-> <<>>,
            self |-> NotAnItem] : k \in {"null", "absent"}}
    \cup {[indicatorTotalCount |-> FALSE, indicators_key |-> "absent",
            indicators |-> <<>>, self |-> item] : item \in Intel471Items}
    \cup {[indicatorTotalCount |-> FALSE, indicators_key |-> "list",
            indicators |-> <<other>>, self |-> item] :
                item \in Intel471Items, other \in Intel471Items}

\* uuid4 values: what stix2 gives an object created without an id.
Uuid4s == {"6f1b", "a0c2", "e57d"}
Uuid4Draws(n) ==
    {u \in [1..n -> Uuid4s] : \A i, j \in 1..n : u[i] = u[j] => i = j}

author_identity == [type |-> "identity", id |-> "identity--intel471", name |-> "Intel 471 Inc."]
generate_id(stix_type, value) == stix_type \o "--" \o value
PatternMapperExists(indicator_type) == indicator_type = "url"
map_url(indicator_data) == "[url:value = '" \o indicator_data \o "']"

\* The items, read with the conditional inside the "or".
Items_ConditionalInsideOr(src) ==
    IF src.indicators_key = "list" /\ src.indicators # <<>> THEN src.indicators
    ELSE IF src.indicatorTotalCount THEN <<>> ELSE <<src.self>>

\* items = source.get("indicators") or [] if "indicatorTotalCount" in source
\*         else [source]
Items(src) ==
    IF src.indicatorTotalCount
    THEN (IF src.indicators_key = "list" /\ src.indicators # <<>>
          THEN src.indicators ELSE <<>>)
    ELSE <<src.self>>

\* Lines 27-47: the objects made from one item, in the order they are stored.
ItemObjects(item, uuid4) ==
    IF PatternMapperExists(item.indicator_type)
    THEN LET stix_pattern == map_url(item.indicator_data)
             malware == [type |-> "malware",
                         id |-> generate_id("malware", StripLower(item.family)),
                         name |-> item.family]
             indicator == [type |-> "indicator",
                           id |-> generate_id("indicator", stix_pattern),
                           description |-> item.description,
                           pattern |-> stix_pattern]
             r1 == [type |-> "relationship", id |-> "relationship--" \o uuid4,
                    relationship_type |-> "indicates",
                    source_ref |-> indicator.id, target_ref |-> malware.id]
         IN  <<malware, indicator, author_identity, r1>>
    ELSE <<>>

\* ContainerPut that leaves a key the dict already holds as it is.
ContainerPut_KeepFirst(container, stix_object) ==
    IF \E i \in DOMAIN container : container[i].id = stix_object.id
    THEN container
    ELSE Append(container, stix_object)

\* container[stix_object.id] = stix_object: a dict keeps the position of a key
\* it already holds and replaces its value.
ContainerPut(container, stix_object) ==
    IF \E i \in DOMAIN container : container[i].id = stix_object.id
    THEN [i \in DOMAIN container |->
            IF container[i].id = stix_object.id THEN stix_object ELSE container[i]]
    ELSE Append(container, stix_object)

RECURSIVE ContainerPutAll(_, _)
ContainerPutAll(container, stix_objects) ==
    IF stix_objects = <<>> THEN container
    ELSE ContainerPutAll(ContainerPut(container, Head(stix_objects)), Tail(stix_objects))

RECURSIVE MapItems(_, _, _, _)
MapItems(container, items, uuid4s, i) ==
    IF i > Len(items) THEN container
    ELSE MapItems(ContainerPutAll(container, ItemObjects(items[i], uuid4s[i])),
                  items, uuid4s, i + 1)

\* A KeyError at lines 16-25 leaves map before anything is returned.
MapRaises(src) == \E i \in DOMAIN Items(src) : ~Items(src)[i].wellformed

\* The objects of the Bundle map returns; <<>> when it returns None.
Map(src, uuid4s) == MapItems(<<>>, Items(src), uuid4s, 1)

\* map(source), for the first time.
I471Map ==
    /\ unit = "intel471" /\ pc = "map"
    /\ IF MapRaises(source)
       THEN /\ pc' = "raised"
            /\ UNCHANGED bundle
       ELSE /\ pc' = "mapped"
            /\ \E uuid4s \in Uuid4Draws(Len(Items(source))) :
                    bundle' = Map(source, uuid4s)
    /\ UNCHANGED <<unit, now, state, config, connector_start_timestamp, current_state,
                   tasks, completed, collection, task_result, work_id, prepared_objects,
                   works, lastinfosec_locals, source, stix_object_list, previous_bundle,
                   history>>
    /\ UNCHANGED <<consecutive_failures, session_sends>>
    /\ UNCHANGED enrichment_locals

\* map(source) once more, in the same or in a later cycle.
I471MapAgain ==
    /\ unit = "intel471" /\ pc = "mapped"
    /\ previous_bundle' = bundle
    /\ \E uuid4s \in Uuid4Draws(Len(Items(source))) :
            bundle' = Map(source, uuid4s)
    /\ pc' = "mapped_again"
    /\ UNCHANGED <<unit, now, state, config, connector_start_timestamp, current_state,
                   tasks, completed, collection, task_result, work_id, prepared_objects,
                   works, lastinfosec_locals, source, stix_object_list, history>>
    /\ UNCHANGED <<consecutive_failures, session_sends>>
    /\ UNCHANGED enrichment_locals

Intel471Next == I471Map \/ I471MapAgain

InitIntel471 ==
    /\ unit = "intel471"
    /\ now = 1
    /\ state = <<>>
    /\ pc = "map"
    /\ extra_min_score = 0
    /\ extra_create_indicator = FALSE
    /\ connector_start_timestamp = 0
    /\ current_state = <<>>
    /\ tasks = NoTasks
    /\ completed = <<>>
    /\ collection = "none"
    /\ task_result = <<>>
    /\ work_id = 0
    /\ prepared_objects = <<>>
    /\ bundle = <<>>
    /\ works = <<>>
    /\ timestamp = 0
    /\ messages = 0
    /\ source \in Intel471Sources
    /\ stix_object_list = <<>>
    /\ previous_bundle = <<>>
    /\ HistoryInit
    /\ NoMarkings

(***************************************************************************)
(* Enrichment connectors: extract_and_check_markings (Malbeacon, FIRST).   *)
(***************************************************************************)
\* The TLP levels of the model, lowest first.
TlpLevels == <<"TLP:CLEAR", "TLP:AMBER", "TLP:RED">>
TlpRank(level) == CHOOSE i \in DOMAIN TlpLevels : TlpLevels[i] = level

\* check_max_tlp that allows every level.
check_max_tlp_AllowsAll(level, max_level) == TRUE

\* helper.check_max_tlp(tlp, max_tlp): no TLP is always allowed.
check_max_tlp(level, max_level) ==
    \/ level = "None"
    \/ max_level = "None"
    \/ TlpRank(level) <= TlpRank(max_level)

\* The objectMarking lists of the model: at most one TLP marking.
MarkingLists ==
    {<<>>, <<[definition_type |-> "PAP", definition |-> "PAP:GREEN"]>>}
    \cup {<<[definition_type |-> "TLP", definition |-> TlpLevels[i]]>> :
              i \in DOMAIN TlpLevels}

\* for marking_definition in objectMarking: if definition_type == "TLP":
\* self.tlp = definition.  What self.tlp holds afterwards.
RECURSIVE ExtractTlp(_, _)
ExtractTlp(object_marking, current_tlp) ==
    IF object_marking = <<>> THEN current_tlp
    ELSE ExtractTlp(Tail(object_marking),
                    IF Head(object_marking).definition_type = "TLP"
                    THEN Head(object_marking).definition ELSE current_tlp)

\* The TLP marking the entity itself carries ("None": it carries none).
EntityTlp(object_marking) == ExtractTlp(object_marking, "None")

(***************************************************************************)
(* Malbeacon: _process_observable and process_c2.                          *)
(***************************************************************************)
_is_ipv4(value) == value \in {"1.2.3.4", "5.6.7.8", "9.9.9.9"}
_is_domain(value) == value \in {"evil.com", "Evil.com"}
IsValidValue(value) == _is_ipv4(value) \/ _is_domain(value)

\* The entries of an answer: actor IP and actor hostname, "NA" when unknown.
C2Beacons == [actorip : {"NA", "1.2.3.4", "5.6.7.8", "not an ip"},
              actorhostname : {"NA", "evil.com", "Evil.com"}]

RECURSIVE BeaconLists(_)
BeaconLists(n) ==
    IF n = 0 THEN {<<>>}
    ELSE LET shorter == BeaconLists(n - 1)
         IN  shorter \cup {Append(l, entry) : l \in {k \in shorter : Len(k) = n - 1},
                                              entry \in C2Beacons}

\* client.request_data: None, a document with a "message", or a list.
C2Answers ==
    {[kind |-> "None", beacons |-> <<>>], [kind |-> "message", beacons |-> <<>>]}
    \cup {[kind |-> "list", beacons |-> l] : l \in BeaconLists(MaxBeacons)}

create_author == [type |-> "identity", id |-> "identity--malbeacon", name |-> "Malbeacon"]

create_indicator_pattern(value) ==
    IF _is_ipv4(value) THEN "[ipv4-addr:value = '" \o value \o "']"
    ELSE "[domain-name:value = '" \o value \o "']"

\* stix2 derives the id of an observable made without one from its value.
_create_obs(value, obs_id) ==
    LET obs_type == IF _is_ipv4(value) THEN "ipv4-addr" ELSE "domain-name"
    IN  [type |-> obs_type,
         id |-> IF obs_id # "None" THEN obs_id ELSE obs_type \o "--" \o value,
         value |-> value, created_by_ref |-> create_author.id]

_create_indicator(value, description) ==
    [type |-> "indicator", id |-> "indicator--" \o create_indicator_pattern(value),
     name |-> value, description |-> description,
     pattern |-> create_indicator_pattern(value), created_by_ref |-> create_author.id]

_create_relationship(source_id, relationship_type, target_id) ==
    [type |-> "relationship",
     id |-> "relationship--" \o relationship_type \o "--" \o source_id \o "--" \o target_id,
     relationship_type |-> relationship_type,
     source_ref |-> source_id, target_ref |-> target_id]

\* The four objects process_c2 appends for an actor IP or an actor hostname.
C2Objects(c2_value, c2_description, obs_standard_id) ==
    LET c2_stix_observable == _create_obs(c2_value, "None")
        c2_stix_indicator == _create_indicator(c2_value, c2_description)
        c2_stix_relationship == _create_relationship(
            c2_stix_indicator.id, "based-on", c2_stix_observable.id)
        base_relationship == _create_relationship(
            obs_standard_id, "related-to", c2_stix_observable.id)
    IN  <<c2_stix_observable, c2_stix_indicator, c2_stix_relationship, base_relationship>>

\* The for loop of process_c2 from entry i on; raised when _create_obs or
\* create_indicator_pattern refuses a value.
RECURSIVE ProcessBeacons(_, _, _, _, _, _)
ProcessBeacons(object_list, already_processed, beacons, i, obs_value, obs_standard_id) ==
    IF i > Len(beacons) THEN [raised |-> FALSE, list |-> object_list]
    ELSE LET c2_beacon == beacons[i]
         IN  IF c2_beacon.actorip # "NA" /\ c2_beacon.actorip \notin already_processed
             THEN IF ~IsValidValue(c2_beacon.actorip)
                  THEN [raised |-> TRUE, list |-> object_list]
                  ELSE LET with_ip == object_list \o C2Objects(c2_beacon.actorip,
                               "Malbeacon Actor IP Address for C2 " \o obs_value,
                               obs_standard_id)
                           with_hostname ==
                               IF c2_beacon.actorhostname # "NA"
                               THEN with_ip \o C2Objects(c2_beacon.actorhostname,
                                        "Malbeacon Actor DomainName for C2 " \o obs_value,
                                        obs_standard_id)
                               ELSE with_ip
                       IN  ProcessBeacons(with_hostname,
                                          already_processed \cup {c2_beacon.actorip},
                                          beacons, i + 1, obs_value, obs_standard_id)
             ELSE ProcessBeacons(object_list, already_processed, beacons, i + 1,
                                 obs_value, obs_standard_id)

\* process_c2: the list self.stix_object_list holds when it is left, and
\* whether it returned the list (otherwise None).
process_c2(object_list, data, obs_value, obs_standard_id) ==
    IF data.kind # "list" THEN [returned |-> FALSE, list |-> object_list]
    ELSE LET stix_external_ref_on_base_obs == _create_obs(obs_value, obs_standard_id)
             stix_indicator_based_on_obs == _create_indicator(obs_value, "None")
             base_stix_relationship == _create_relationship(
                 stix_indicator_based_on_obs.id, "based-on",
                 stix_external_ref_on_base_obs.id)
             looped == ProcessBeacons(
                 object_list \o <<create_author, stix_external_ref_on_base_obs,
                                  stix_indicator_based_on_obs, base_stix_relationship>>,
                 {}, data.beacons, 1, obs_value, obs_standard_id)
         IN  [returned |-> ~looped.raised, list |-> looped.list]

\* The observable under enrichment, as the platform exports it.
StixEntity == [type |-> "ipv4-addr", id |-> "ipv4-addr--9.9.9.9", value |-> "9.9.9.9",
               created_by_ref |-> "None"]

\* data_from_enrichment and the answer the Malbeacon API will give.
\* The entity carries markings in the messages with a short answer.
EnrichmentInputs ==
    [stix_entity : {StixEntity}, stix_objects : {<<>>, <<StixEntity>>}, data : C2Answers,
     objectMarking : {<<>>}]
    \cup [stix_entity : {StixEntity}, stix_objects : {<<StixEntity>>},
          data : {answer \in C2Answers : Len(answer.beacons) < MaxBeacons},
          objectMarking : MarkingLists]

\* _process_observable up to the call of process_c2: the TLP check raises
\* ValueError, or self.stix_object_list takes the objects of the message.
MBProcessObservable ==
    /\ unit = "malbeacon" /\ pc = "process_observable"
    /\ tlp' = ExtractTlp(source.objectMarking, tlp)
    /\ IF ~check_max_tlp(tlp', max_tlp)
       THEN /\ pc' = "error"
            /\ UNCHANGED stix_object_list
       ELSE /\ stix_object_list' = source.stix_objects
            /\ pc' = "process_c2"
    /\ UNCHANGED <<unit, now, state, config, current_state, proofpoint_locals,
                   lastinfosec_locals, source, previous_bundle, history>>
    /\ UNCHANGED <<consecutive_failures, session_sends>>
    /\ UNCHANGED <<max_tlp, api_requests>>

\* stix_objects = self.process_c2(obs_value, obs_standard_id, entity_type)
MBProcessC2 ==
    /\ unit = "malbeacon" /\ pc = "process_c2"
    /\ LET result == process_c2(stix_object_list, source.data,
                                source.stix_entity.value, source.stix_entity.id)
       IN  /\ stix_object_list' = result.list
           /\ pc' = IF result.returned THEN "send" ELSE "no_information"
    /\ UNCHANGED <<unit, now, state, config, current_state, proofpoint_locals,
                   lastinfosec_locals, source, previous_bundle, history>>
    /\ UNCHANGED <<consecutive_failures, session_sends>>
    /\ api_requests' = api_requests + 1
    /\ UNCHANGED <<tlp, max_tlp>>

\* helper.stix2_create_bundle(stix_objects); helper.send_stix2_bundle(...)
MBSend ==
    /\ unit = "malbeacon" /\ pc = "send"
    /\ bundle' = stix_object_list
    /\ bundles_sent' = bundles_sent + 1
    /\ pc' = "sent"
    /\ UNCHANGED <<unit, now, state, config, connector_start_timestamp, current_state,
                   tasks, completed, collection, task_result, work_id, prepared_objects,
                   works, lastinfosec_locals, mapper_locals, state_at_start,
                   set_state_calls, cycle_failed, cycle_end>>
    /\ UNCHANGED <<consecutive_failures, session_sends>>
    /\ UNCHANGED enrichment_locals

MalbeaconNext == MBProcessObservable \/ MBProcessC2 \/ MBSend

InitMalbeacon ==
    /\ unit = "malbeacon"
    /\ now = 1
    /\ state = <<>>
    /\ pc = "process_observable"
    /\ extra_min_score = 0
    /\ extra_create_indicator = FALSE
    /\ connector_start_timestamp = 0
    /\ current_state = <<>>
    /\ tasks = NoTasks
    /\ completed = <<>>
    /\ collection = "none"
    /\ task_result = <<>>
    /\ work_id = 0
    /\ prepared_objects = <<>>
    /\ bundle = <<>>
    /\ works = <<>>
    /\ timestamp = 0
    /\ messages = 0
    /\ source \in EnrichmentInputs
    /\ stix_object_list = <<>>
    /\ previous_bundle = <<>>
    /\ HistoryInit
    /\ max_tlp = "TLP:AMBER"
    /\ tlp \in IF source.objectMarking = <<>> /\ Len(source.data.beacons) = MaxBeacons
               THEN {"None"}
               ELSE {"None"} \cup Range(TlpLevels)

(***************************************************************************)
(* ShadowServer: ShadowServerStixTransformation.  The constructor builds   *)
(* stix_objects from the rows of one report.  A row holds a hostname and a *)
(* tag; the tag is modelled by its parts between ';' (one part: no ';').   *)
(***************************************************************************)
\* labels: list = ['ShadowServer'], or the list the caller passes.
ShadowServerLabels == <<"ShadowServer">>
LabelsInputs == {ShadowServerLabels, <<>>}

HostNames == {"evil.com", "Evil.com", " evil.com"}
Tags == {<<>>, <<"ssl">>, <<"ssl", "vpn">>, <<"ssl", "ssl">>, <<"ShadowServer", "ssl">>}

Elements ==
    [hostname : HostNames, tag : Tags]
    \cup {[hostname |-> "None", tag |-> <<"CVE-1", "ssl">>],
          [hostname |-> "None", tag |-> <<"cve-1", "ssl">>],
          [hostname |-> "evil.com", tag |-> <<"CVE-1">>],
          [hostname |-> "None", tag |-> <<>>]}

RECURSIVE ReportLists(_)
ReportLists(n) ==
    IF n = 1 THEN {<<element>> : element \in Elements}
    ELSE LET shorter == ReportLists(n - 1)
         IN  shorter \cup {Append(l, element) : l \in {k \in shorter : Len(k) = n - 1},
                                                element \in Elements}

\* labels.upper().startswith('CVE')
StartsWithCVE(label) == label \in {"CVE-1", "cve-1"}

\* str.upper() on the labels of the model.
Upper(label) == IF label = "cve-1" THEN "CVE-1" ELSE label

\* element.get('tag') and ";" in element.get('tag'): tag.split(';')
CustomLabels(element) == IF Len(element.tag) >= 2 THEN element.tag ELSE <<>>

\* self.custom_properties = {} in __init__: the keys it holds, none yet.
NoCustomProperties == {}

\* create_custom_properties: the keys of self.custom_properties afterwards
\* (external_reference and author_id are set by then; labels may be empty).
create_custom_properties(labels) ==
    {"external_references", "created_by_ref"}
        \cup (IF labels # <<>> THEN {"x_opencti_labels"} ELSE {})

\* labels_list: self.custom_properties.get('x_opencti_labels', []) extended
\* with the parts of the tag.
LabelsList(element, labels) == labels \o CustomLabels(element)

\* create_author: the custom properties, with the reliability and the
\* organization type, are attached only if self.custom_properties is not
\* empty when it runs.
shadowserver_create_author(custom_properties) ==
    IF custom_properties # {}
    THEN [type |-> "identity", id |-> "identity--shadowserver",
          custom_properties |-> custom_properties
              \cup {"x_opencti_reliability", "x_opencti_organization_type"},
          reliability |-> "A - Completely reliable",
          organization_type |-> "non-profit"]
    ELSE [type |-> "identity", id |-> "identity--shadowserver"]

\* create_stix_objects calls create_author first, before
\* create_custom_properties.
ShadowServerAuthor == shadowserver_create_author(NoCustomProperties)

\* upload_stix2_artifact: the report as an artifact; create_report runs after
\* create_custom_properties, so self.custom_properties is not empty.
ShadowServerArtifact(labels) ==
    [type |-> "artifact", id |-> "artifact--report",
     custom_properties |-> create_custom_properties(labels) \cup {"x_opencti_score"},
     score |-> 0, labels |-> labels]

\* Vulnerability(**kwargs) without an id: stix2 gives a uuid4.
create_vulnerability(name, labels, uuid4) ==
    [type |-> "vulnerability", id |-> "vulnerability--" \o uuid4, name |-> Upper(name),
     labels |-> labels]

\* extend_stix_object: the score and the labels are put in a copy of
\* self.custom_properties, and the copy is attached inside the test on labels.
extend_stix_object(kwargs, custom_properties, labels) ==
    IF Len(labels) > 0
    THEN kwargs @@ [custom_properties |-> custom_properties
                        \cup {"x_opencti_score", "x_opencti_labels"},
                    score |-> 0, labels |-> labels]
    ELSE kwargs

\* DomainName(**kwargs): stix2 derives the id from the value as given.
create_hostname(value, custom_properties, labels) ==
    extend_stix_object(
        [type |-> "domain-name", id |-> "domain-name--" \o value, value |-> value],
        custom_properties, labels)

\* ObservedData(**kwargs) without an id: stix2 gives a uuid4.
create_observed_data(observables_list, custom_properties, labels_list, uuid4) ==
    extend_stix_object(
        [type |-> "observed-data", id |-> "observed-data--" \o uuid4,
         object_refs |-> observables_list],
        custom_properties, labels_list)

\* The objects stix2 gives a uuid4 while one row is mapped.
CveLabels(element) == SelectSeq(CustomLabels(element), StartsWithCVE)
Uuid4Count(element) ==
    Len(CveLabels(element)) + (IF element.hostname # "None" THEN 1 ELSE 0)

\* map_to_stix(element): the objects appended to stix_objects.
map_to_stix(element, labels, uuid4s) ==
    LET cves == CveLabels(element)
        custom_properties == create_custom_properties(labels)
        vulnerabilities ==
            [i \in 1..Len(cves) |-> create_vulnerability(cves[i], labels, uuid4s[i])]
    IN  IF element.hostname = "None" THEN vulnerabilities
        ELSE LET hostname == create_hostname(element.hostname, custom_properties,
                                             LabelsList(element, labels))
             IN  vulnerabilities \o
                 <<hostname,
                   create_observed_data(<<hostname.id>>, custom_properties,
                                        LabelsList(element, labels),
                                        uuid4s[Len(cves) + 1])>>

RECURSIVE Uuid4Total(_)
Uuid4Total(report_list) ==
    IF report_list = <<>> THEN 0
    ELSE Uuid4Count(Head(report_list)) + Uuid4Total(Tail(report_list))

\* create_report: for element in self.report_list: self.map_to_stix(element)
RECURSIVE MapElements(_, _, _)
MapElements(report_list, labels, uuid4s) ==
    IF report_list = <<>> THEN <<>>
    ELSE LET n == Uuid4Count(Head(report_list))
         IN  map_to_stix(Head(report_list), labels, SubSeq(uuid4s, 1, n))
             \o MapElements(Tail(report_list), labels,
                            SubSeq(uuid4s, n + 1, Len(uuid4s)))

\* __init__ ... create_stix_objects: author, artifact, then the rows.
create_stix_objects(report_list, labels, uuid4s) ==
    <<ShadowServerAuthor, ShadowServerArtifact(labels)>>
        \o MapElements(report_list, labels, uuid4s)

SSCreateStixObjects ==
    /\ unit = "shadowserver" /\ pc = "init"
    /\ pc' = "created"
    /\ \E uuid4s \in Uuid4Draws(Uuid4Total(source.report_list)) :
            bundle' = create_stix_objects(source.report_list, source.labels, uuid4s)
    /\ UNCHANGED <<unit, now, state, config, connector_start_timestamp, current_state,
                   tasks, completed, collection, task_result, work_id, prepared_objects,
                   works, lastinfosec_locals, source, stix_object_list, previous_bundle,
                   history>>
    /\ UNCHANGED <<consecutive_failures, session_sends>>
    /\ UNCHANGED enrichment_locals

ShadowServerNext == SSCreateStixObjects

InitShadowServer ==
    /\ unit = "shadowserver"
    /\ now = 1
    /\ state = <<>>
    /\ pc = "init"
    /\ extra_min_score = 0
    /\ extra_create_indicator = FALSE
    /\ connector_start_timestamp = 0
    /\ current_state = <<>>
    /\ tasks = NoTasks
    /\ completed = <<>>
    /\ collection = "none"
    /\ task_result = <<>>
    /\ work_id = 0
    /\ prepared_objects = <<>>
    /\ bundle = <<>>
    /\ works = <<>>
    /\ timestamp = 0
    /\ messages = 0
    /\ source \in [report_list : ReportLists(MaxElements), labels : LabelsInputs]
    /\ stix_object_list = <<>>
    /\ previous_bundle = <<>>
    /\ HistoryInit
    /\ NoMarkings

(***************************************************************************)
(* ProofPoint ET Reputation: ProofpointEtReputationClient.fetch_data and   *)
(* the use its caller makes of the result.                                 *)
(***************************************************************************)
\* What requests.Session.send does: a 200 answer, or one of the exceptions.
SendOutcomes == {"ok", "RetryError", "HTTPError", "Timeout", "ConnectionError", "Exception"}

\* str(err)
ErrorText(outcome) ==
    CASE outcome = "RetryError" -> "Max retries exceeded"
      [] outcome = "HTTPError" -> "HTTP error occurred"
      [] outcome = "Timeout" -> "Request timed out"
      [] outcome = "ConnectionError" -> "Failed to establish a connection"
      [] outcome = "Exception" -> "Unexpected error"

ErrorMessage(outcome) ==
    CASE outcome = "RetryError" ->
           "[CONNECTOR-API] A retry error occurred during data recovery, maximum retries exceeded for url"
      [] outcome = "HTTPError" -> "[CONNECTOR-API] A http error occurred during data recovery"
      [] outcome = "Timeout" -> "[CONNECTOR-API] A timeout error has occurred during data recovery"
      [] outcome = "ConnectionError" ->
           "[CONNECTOR-API] A connection error occurred during data recovery"
      [] outcome = "Exception" ->
           "[CONNECTOR-API] An unexpected error occurred during the recovery of all data"

\* A mapping that fetch_data returns: the values of its keys 'error' and
\* 'message' ("None": no such key) and its other entries, the reputation list.
ReputationData(data) == [error |-> "None", message |-> "None", entries |-> data]

\* fetch_data: the data of the answer, or a mapping with 'error' and 'message'.
fetch_data(outcome, data) ==
    IF outcome = "ok" THEN ReputationData(data)
    ELSE [error |-> ErrorText(outcome), message |-> ErrorMessage(outcome),
          entries |-> <<>>]

\* task_result.get("error"): the key is there and its value is not empty.
HasError(result) == result.error \notin {"None", ""}

\* The calls the model makes: a collection, what send does, the data it answers.
FetchCalls ==
    UNION {{[collection |-> c, outcome |-> outcome, data |-> data] :
                outcome \in SendOutcomes, data \in DataLists(c, MaxRecords)} :
           c \in ReputationCollections}

\* client.fetch_data(reputation_list_entity=...): one Session.send.
FetchData ==
    /\ unit = "fetch_data" /\ pc = "fetch"
    /\ task_result' = fetch_data(source.outcome, source.data)
    /\ session_sends' = session_sends + 1
    /\ pc' = "fetched"
    /\ UNCHANGED <<unit, now, state, config, connector_start_timestamp, current_state,
                   tasks, completed, collection, work_id, prepared_objects, bundle,
                   works, lastinfosec_locals, mapper_locals, history,
                   consecutive_failures, enrichment_locals>>

\* FetchDataTaken in which the caller goes on with whatever was returned.
FetchDataTaken_ErrorIgnored ==
    /\ unit = "fetch_data" /\ pc = "fetched"
    /\ pc' = "initiate"
    /\ UNCHANGED <<unit, now, state, config, connector_start_timestamp, current_state,
                   tasks, completed, collection, task_result, work_id, prepared_objects,
                   bundle, works, lastinfosec_locals, mapper_locals, history,
                   consecutive_failures, session_sends, enrichment_locals>>

\* The caller: if task_result.get("error"): log, continue; else go on to
\* initiate the work.
FetchDataTaken ==
    /\ unit = "fetch_data" /\ pc = "fetched"
    /\ pc' = IF HasError(task_result) THEN "skipped" ELSE "initiate"
    /\ UNCHANGED <<unit, now, state, config, connector_start_timestamp, current_state,
                   tasks, completed, collection, task_result, work_id, prepared_objects,
                   bundle, works, lastinfosec_locals, mapper_locals, history,
                   consecutive_failures, session_sends, enrichment_locals>>

FetchDataNext == FetchData \/ FetchDataTaken

InitFetchData ==
    /\ unit = "fetch_data"
    /\ now = 1
    /\ state = <<>>
    /\ pc = "fetch"
    /\ extra_min_score = 0
    /\ extra_create_indicator = FALSE
    /\ connector_start_timestamp = 0
    /\ current_state = <<>>
    /\ tasks = NoTasks
    /\ completed = <<>>
    /\ \E call \in FetchCalls : collection = call.collection /\ source = call
    /\ task_result = ReputationData(<<>>)
    /\ work_id = 0
    /\ prepared_objects = <<>>
    /\ bundle = <<>>
    /\ works = <<>>
    /\ timestamp = 0
    /\ messages = 0
    /\ stix_object_list = <<>>
    /\ previous_bundle = <<>>
    /\ HistoryInit
    /\ NoMarkings

(***************************************************************************)
(* FIRST EPSS: ConnectorFirst.  helper.listen calls process_message for    *)
(* each enrichment message; self.tlp and self.stix_objects_list are         *)
(* attributes of the one connector instance.                               *)
(***************************************************************************)
\* data["stix_entity"]: a vulnerability, or an entity outside the scope.
FirstEntities ==
    {[type |-> "vulnerability", id |-> "vulnerability--cve-1", name |-> "CVE-1"],
     [type |-> "ipv4-addr", id |-> "ipv4-addr--9.9.9.9", name |-> "9.9.9.9"]}

\* helper.connect_scope.lower().replace(" ", "").split(",")
entity_in_scope(entity) == entity.type \in {"vulnerability"}

\* The entries of enrichment_response["data"].
EpssInfos ==
    <<[cve |-> "CVE-1", epss |-> 5, percentile |-> 90],
      [cve |-> "CVE-1", epss |-> 7, percentile |-> 95]>>

\* What api.get_entity does: it raises, or answers with a "data" list.
FirstResponses ==
    {[raises |-> TRUE, data |-> <<>>]}
    \cup {[raises |-> FALSE, data |-> SubSeq(EpssInfos, 1, n)] : n \in 0..Len(EpssInfos)}

\* The enrichment messages, each with the answer the API will give for it.
FirstMessages ==
    {[objectMarking |-> marking, stix_entity |-> entity, stix_objects |-> objects,
      response |-> response] :
        marking \in MarkingLists, entity \in FirstEntities,
        objects \in {<<>>, <<[type |-> "vulnerability", id |-> "vulnerability--cve-1"]>>},
        response \in FirstResponses}

first_create_author == [type |-> "identity", id |-> "identity--first"]

\* converter_to_stix.create_vulnerability(properties, vulnerability_id)
first_create_vulnerability(info, vulnerability_id) ==
    [type |-> "vulnerability", id |-> vulnerability_id, name |-> info.cve,
     x_opencti_epss_score |-> info.epss, x_opencti_epss_percentile |-> info.percentile]

\* _collect_intelligence: a vulnerability per entry of the answer is appended
\* to self.stix_objects_list, and the author when the list is not empty.
_collect_intelligence(objects, enrichment_infos, vulnerability_id) ==
    LET appended ==
            objects \o [i \in 1..Len(enrichment_infos) |->
                            first_create_vulnerability(enrichment_infos[i], vulnerability_id)]
    IN  IF appended # <<>> THEN Append(appended, first_create_author) ELSE appended

not_first == <<unit, state, config, connector_start_timestamp, current_state,
               tasks, completed, collection, task_result, work_id, prepared_objects,
               works, lastinfosec_locals, previous_bundle, state_at_start,
               set_state_calls, cycle_failed, cycle_end, consecutive_failures,
               session_sends, max_tlp>>

FirstAnswers == {"error", "skipped", "no_information", "sent"}

\* helper.listen: the next message of the queue is handed to process_message.
FIRSTListen ==
    /\ unit = "first" /\ pc \in {"listen"} \cup FirstAnswers
    /\ now <= MaxEnrichments
    /\ now' = now + 1
    /\ source' \in FirstMessages
    /\ pc' = "process_message"
    /\ bundle' = <<>>
    /\ bundles_sent' = 0
    /\ api_requests' = 0
    /\ UNCHANGED <<not_first, stix_object_list, tlp>>

\* process_message(data)
FIRSTProcessMessage ==
    /\ unit = "first" /\ pc = "process_message"
    /\ tlp' = ExtractTlp(source.objectMarking, tlp)
    /\ IF ~check_max_tlp(tlp', max_tlp)
       THEN \* extract_and_check_markings raises ValueError: except Exception
            /\ pc' = "error"
            /\ UNCHANGED <<stix_object_list, bundle, bundles_sent, api_requests>>
       ELSE IF ~entity_in_scope(source.stix_entity)
       THEN /\ pc' = "skipped"
            /\ stix_object_list' = source.stix_objects
            /\ UNCHANGED <<bundle, bundles_sent, api_requests>>
       ELSE IF source.response.raises
       THEN /\ pc' = "error"
            /\ stix_object_list' = source.stix_objects
            /\ api_requests' = api_requests + 1
            /\ UNCHANGED <<bundle, bundles_sent>>
       ELSE LET stix_objects == _collect_intelligence(source.stix_objects,
                                    source.response.data, source.stix_entity.id)
            IN  /\ stix_object_list' = stix_objects
                /\ api_requests' = api_requests + 1
                /\ IF stix_objects # <<>>
                   THEN /\ bundle' = stix_objects
                        /\ bundles_sent' = bundles_sent + 1
                        /\ pc' = "sent"
                   ELSE /\ pc' = "no_information"
                        /\ UNCHANGED <<bundle, bundles_sent>>
    /\ UNCHANGED <<not_first, now, source>>

FirstNext == FIRSTListen \/ FIRSTProcessMessage

InitFirst ==
    /\ unit = "first"
    /\ now = 1
    /\ state = <<>>
    /\ pc = "listen"
    /\ extra_min_score = 0
    /\ extra_create_indicator = FALSE
    /\ NoLocals
    /\ HistoryInit
    /\ tlp = "None"
    /\ max_tlp \in {"TLP:CLEAR", "TLP:AMBER"}

(***************************************************************************)
(* Mandiant: __main__.  Mandiant.run is one cycle; following the design,   *)
(* it handles a transient failure of the cycle itself and returns.         *)
(***************************************************************************)
not_mandiant == <<unit, state, config, current_state, proofpoint_locals,
                  lastinfosec_locals, mapper_locals, state_at_start, set_state_calls,
                  bundles_sent, session_sends, enrichment_locals>>

\* while True: mandiantConnector.run()
MandiantBegin ==
    /\ unit = "mandiant" /\ pc = "idle"
    /\ now + 1 <= MaxTime
    /\ pc' = "run"
    /\ cycle_failed' = FALSE
    /\ cycle_end' = "none"
    /\ UNCHANGED <<now, not_mandiant, consecutive_failures>>

\* run() returns after a cycle that went through.
MandiantRunReturns ==
    /\ unit = "mandiant" /\ pc = "run"
    /\ now' = now + 1
    /\ pc' = "idle"
    /\ cycle_end' = "committed"
    /\ consecutive_failures' = 0
    /\ UNCHANGED <<not_mandiant, cycle_failed>>

\* run() returns after a cycle that failed with a transient error.
MandiantRunFails ==
    /\ unit = "mandiant" /\ pc = "run"
    /\ now' = now + 1
    /\ pc' = "idle"
    /\ cycle_failed' = TRUE
    /\ cycle_end' = "aborted"
    /\ consecutive_failures' = consecutive_failures + 1
    /\ UNCHANGED not_mandiant

\* An exception leaves run(): except Exception: time.sleep(10); sys.exit(0)
MandiantRunRaises ==
    /\ unit = "mandiant" /\ pc = "run"
    /\ now' = now + 1
    /\ pc' = "exited"
    /\ cycle_end' = "fatal"
    /\ UNCHANGED <<not_mandiant, cycle_failed, consecutive_failures>>

MandiantNext ==
    \/ MandiantBegin
    \/ MandiantRunReturns
    \/ MandiantRunFails
    \/ MandiantRunRaises

InitMandiant ==
    /\ unit = "mandiant"
    /\ now = 1
    /\ state = <<>>
    /\ pc = "idle"
    /\ extra_min_score = 0
    /\ extra_create_indicator = FALSE
    /\ NoLocals
    /\ HistoryInit
    /\ NoMarkings

Init == InitProofpoint \/ InitGenerateStix \/ InitSendStix \/ InitLastInfoSec
        \/ InitIntel471 \/ InitMalbeacon \/ InitMandiant
        \/ InitShadowServer \/ InitFetchData
        \/ InitFirst
Next == ProofpointNext \/ LastInfoSecNext \/ Intel471Next \/ MalbeaconNext
        \/ MandiantNext \/ ShadowServerNext \/ FetchDataNext
        \/ FirstNext
Spec == Init /\ [][Next]_vars

\* The loop of run(), the scheduler of the helper and the loop of __main__
\* start the next cycle when the sleep is over.
FairSpec ==
    /\ Spec
    /\ WF_vars(PPBegin) /\ WF_vars(LISBegin) /\ WF_vars(MandiantBegin)

(***************************************************************************)
(* Properties of the ingestion cycle.                                      *)
(***************************************************************************)

\* C1: in a cycle in which a sub-feed fetch returned an error, or STIX
\* generation or the sending of a bundle failed, the persisted cursor is not
\* advanced: it still holds the value it had when the cycle started.
C1_FailedCycleKeepsCursor ==
    cycle_failed => state = state_at_start

\* C2: within one cycle the persisted cursor is written at most once, and only
\* after the last bundle submission of the cycle has returned; at every earlier
\* point of the cycle it equals the value it had at cycle start, also when the
\* process stops there.
C2_CursorWrittenOnceAfterLastSubmission ==
    /\ [](/\ set_state_calls <= 1
          /\ (pc # "idle" \/ cycle_end = "stopped")
                => (set_state_calls = 0 /\ state = state_at_start)
          /\ set_state_calls = 1 => cycle_end = "committed")
    /\ [][set_state_calls = 1 /\ set_state_calls' = 1
            => bundles_sent' = bundles_sent]_vars

\* A cycle that sent a bundle and then wrote the cursor, after an earlier
\* cycle had already written one.
C2_Witness ==
    /\ pc = "idle" /\ cycle_end = "committed"
    /\ bundles_sent >= 1 /\ set_state_calls = 1
    /\ state_at_start # <<>> /\ state # state_at_start

(***************************************************************************)
(* Properties of the generated and emitted objects.                        *)
(***************************************************************************)
IsObservable(obj) == obj.type \in {"ipv4-addr", "ipv6-addr", "domain-name"}
IsIndicator(obj) == obj.type = "indicator"

\* The observable and the indicator generated for an entity.
ObjectsOfEntity(objects, entity) ==
    {i \in DOMAIN objects :
        \/ IsObservable(objects[i]) /\ objects[i].value = entity
        \/ IsIndicator(objects[i]) /\ objects[i].name = entity}

\* C9: for every raw per-category score, negative values and values above 100
\* included, the score of every emitted observable and indicator lies between
\* 0 and 100 inclusive.
C9_EmittedScoresWithin0And100 ==
    unit \in {"proofpoint", "generate_stix"} =>
        \A i \in DOMAIN bundle :
            (IsObservable(bundle[i]) \/ IsIndicator(bundle[i]))
                => (0 <= bundle[i].score /\ bundle[i].score <= 100)

\* The largest of a record's category scores, cut at 100.
MaxScoreCappedAt100(record) ==
    LET largest == CHOOSE m \in Values(record.scores) :
                       \A s \in Values(record.scores) : m >= s
    IN  IF largest < 100 THEN largest ELSE 100

\* C10: the score given to a record's observable and indicator equals the
\* minimum of 100 and the maximum score across all of the record's
\* categories, and their labels are exactly the record's category names.
C10_ScoreIsCappedMaximumAndLabelsAreCategories ==
    (unit \in {"proofpoint", "generate_stix"} /\ pc \in {"send", "complete"}
        /\ prepared_objects # <<>>) =>
        \A r \in DOMAIN task_result :
            \A i \in ObjectsOfEntity(prepared_objects, task_result[r].entity) :
                /\ prepared_objects[i].score = MaxScoreCappedAt100(task_result[r])
                /\ prepared_objects[i].labels = Keys(task_result[r].scores)

\* A record with two categories whose scores differ, the larger above 100,
\* has its observable and its indicator in the generated list.
C10_Witness ==
    /\ unit = "generate_stix" /\ pc = "send"
    /\ \E r \in DOMAIN task_result :
        /\ task_result[r].scores = {<<"spam", 20>>, <<"botnet", 101>>}
        /\ \E i, j \in ObjectsOfEntity(prepared_objects, task_result[r].entity) :
            /\ IsObservable(prepared_objects[i]) /\ IsIndicator(prepared_objects[j])
            /\ prepared_objects[i].score = 100
            /\ prepared_objects[j].labels = {"spam", "botnet"}

(***************************************************************************)
(* Properties of the lists of objects handed to the platform.              *)
(***************************************************************************)
IsRelationship(obj) == obj.type = "relationship"
Ids(objects) == {objects[i].id : i \in DOMAIN objects}

\* C3: for every relationship in a list of objects handed to the platform,
\* the object it names as source and the object it names as target are both
\* in that same list.
C3_RelationshipEndpointsInSameList ==
    \A i \in DOMAIN bundle :
        IsRelationship(bundle[i]) =>
            /\ bundle[i].source_ref \in Ids(bundle)
            /\ bundle[i].target_ref \in Ids(bundle)

\* A Malbeacon bundle with a relationship from the enriched observable to an
\* actor observable, and a ProofPoint bundle sent in a full cycle with an
\* indicator based on an observable.
C3_Witness ==
    \/ /\ unit = "malbeacon" /\ pc = "sent"
       /\ \E i \in DOMAIN bundle :
            /\ IsRelationship(bundle[i])
            /\ bundle[i].relationship_type = "related-to"
            /\ bundle[i].source_ref = source.stix_entity.id
    \/ /\ unit = "proofpoint" /\ pc = "complete"
       /\ \E i \in DOMAIN bundle :
            IsRelationship(bundle[i]) /\ bundle[i].relationship_type = "based-on"

\* C4: no bundle handed to the platform holds two objects with the same id.
C4_NoTwoObjectsWithTheSameId ==
    \A i, j \in DOMAIN bundle : bundle[i].id = bundle[j].id => i = j

\* C5: mapping the same raw record twice yields objects with identical ids,
\* for every kind of object produced, relationships included.
C5_SameIdsWhenMappedTwice ==
    (unit = "intel471" /\ pc = "mapped_again") =>
        /\ Len(bundle) = Len(previous_bundle)
        /\ \A i \in DOMAIN bundle : bundle[i].id = previous_bundle[i].id

(***************************************************************************)
(* Properties of objects that share an id.                                 *)
(***************************************************************************)
IsScored(obj) == IsObservable(obj) \/ IsIndicator(obj)
ObjectsWithId(objects, id) == {i \in DOMAIN objects : objects[i].id = id}
FirstIndex(objects, id) ==
    CHOOSE i \in ObjectsWithId(objects, id) : \A j \in ObjectsWithId(objects, id) : i <= j
LastIndex(objects, id) ==
    CHOOSE i \in ObjectsWithId(objects, id) : \A j \in ObjectsWithId(objects, id) : i >= j
ReverseOf(list) == [i \in 1..Len(list) |-> list[Len(list) + 1 - i]]
AllButLast(list) == SubSeq(list, 1, Len(list) - 1)

\* The sender was given prepared_objects and has sent their bundle.
SenderDone ==
    /\ unit \in {"proofpoint", "generate_stix", "send_stix"}
    /\ pc = "complete" /\ bundle # <<>>

\* map(source) has returned.
MapDone == unit = "intel471" /\ pc = "mapped"

\* The objects map makes from the items, in the order it stores them.
RECURSIVE Candidates(_, _, _)
Candidates(items, uuid4s, i) ==
    IF i > Len(items) THEN <<>>
    ELSE ItemObjects(items[i], uuid4s[i]) \o Candidates(items, uuid4s, i + 1)

SomeDraw(n) == CHOOSE u \in Uuid4Draws(n) : TRUE

\* map on the same source with its items in the opposite order.
MapSwapped ==
    Map([source EXCEPT !.indicators = ReverseOf(@)], SomeDraw(Len(Items(source))))

Generated == unit \in {"proofpoint", "generate_stix"} /\ pc = "send"

\* The relationships of the list that start or end at an object of the entity.
RelationshipsOfEntity(objects, entity) ==
    {i \in DOMAIN objects :
        /\ IsRelationship(objects[i])
        /\ \E j \in ObjectsOfEntity(objects, entity) :
               objects[j].id \in {objects[i].source_ref, objects[i].target_ref}}

RefersToEntity(obj, entity, c) ==
    /\ IsRelationship(obj)
    /\ \/ obj.target_ref = make_observable(entity, 0, {}, c).id
       \/ obj.source_ref = make_indicator(entity, 0, {}, c).id

C12_BadRecordSkippedOthersMapped ==
    /\ (unit \in {"proofpoint", "generate_stix"} /\ pc \in {"send", "complete"}) =>
        \A r \in DOMAIN task_result :
            (/\ task_result[r].conforms /\ task_result[r].scores # {}
             /\ MaxScoreCappedAt100(task_result[r]) >= extra_min_score)
            => \E i \in ObjectsOfEntity(prepared_objects, task_result[r].entity) :
                    IsObservable(prepared_objects[i])
    /\ (unit = "intel471" /\ pc \in {"mapped", "raised"}) =>
        \A k \in DOMAIN Items(source) :
            (Items(source)[k].wellformed
                /\ PatternMapperExists(Items(source)[k].indicator_type))
            => generate_id("indicator", map_url(Items(source)[k].indicator_data))
                    \in Ids(bundle)

(***************************************************************************)
(* Properties of the loop over the two sub-feeds.                          *)
(***************************************************************************)
WorksOf(c) == {w \in DOMAIN works : works[w].collection = c}

\* C13: in a cycle over the two sub-feeds no work is initiated for a sub-feed
\* whose fetch returned an error, a sub-feed that was handled has one work,
\* completed once, an error result or a raise of the generation or of the
\* sending does not end the loop, and the cycle commits only when each
\* sub-feed was skipped or handled, in whatever order the fetches finish.
C13_FailedSubFeedDoesNotStopTheOther ==
    /\ [](unit = "proofpoint" =>
            \A c \in ReputationCollections :
                /\ tasks[c] = "skipped" => WorksOf(c) = {}
                /\ tasks[c] = "handled" =>
                        /\ Cardinality(WorksOf(c)) = 1
                        /\ \A w \in WorksOf(c) : works[w].processed = 1)
    /\ [][(unit = "proofpoint" /\ pc \in {"as_completed", "generate", "send"}
                /\ pc' = "idle")
            => \/ cycle_end' = "stopped"
               \/ /\ cycle_end' = "committed"
                  /\ \A c \in ReputationCollections : tasks[c] \in {"skipped", "handled"}]_vars

\* The fetch that finished first returned an error, the other sub-feed has
\* been generated and sent under its work, and the work is completed.
C13_Witness ==
    /\ unit = "proofpoint" /\ pc = "as_completed" /\ cycle_failed
    /\ \E c, d \in ReputationCollections :
        /\ tasks[c] = "skipped" /\ tasks[d] = "handled"
        /\ Len(works) = 1
        /\ works[1] = [collection |-> d, bundles |-> 1, processed |-> 1]

(***************************************************************************)
(* Properties of the retries after failed cycles.                          *)
(***************************************************************************)
\* The cycle ended in an except Exception branch and the connector sleeps
\* until it tries again.
WaitsToRetry == pc = "idle" /\ cycle_end = "aborted"

\* C14: the number of consecutive retries after failed cycles is bounded by a
\* fixed ceiling: once that many cycles in a row have failed, the connector
\* does not go back to waiting for another try.
C14_ConsecutiveRetriesStopAtCeiling ==
    consecutive_failures >= RetryCeiling => ~WaitsToRetry

\* The clock of the model has room for another cycle.
ClockHasRoom == now + 2 <= MaxTime

EmitRank(obj) ==
    IF obj.type \in {"identity", "marking-definition"} THEN 0
    ELSE IF IsRelationship(obj) THEN 2
    ELSE 1

\* C16: in every list handed to the platform the author and the marking come
\* first, then the observables and indicators, and all relationships last.
C16_AuthorFirstRelationshipsLast ==
    \A i, j \in DOMAIN bundle :
        i < j => EmitRank(bundle[i]) <= EmitRank(bundle[j])

\* C17: no emitted object carries the same label twice.  (The labels of a
\* ProofPoint object are the keys of a dict, which are distinct.)
C17_NoLabelTwice ==
    unit = "shadowserver" =>
        \A k \in DOMAIN bundle :
            "labels" \in DOMAIN bundle[k] =>
                \A i, j \in DOMAIN bundle[k].labels :
                    bundle[k].labels[i] = bundle[k].labels[j] => i = j

\* A source value without its letter case and its surrounding white space.
NormalForm(value) ==
    IF value \in {"evil.com", "Evil.com", " evil.com"} THEN "evil.com"
    ELSE IF value \in {"Emotet", "emotet "} THEN "emotet"
    ELSE value

\* The source value an object was made from ("None": not such an object).
SourceValue(obj) ==
    IF obj.type = "malware" THEN obj.name
    ELSE IF IsObservable(obj) THEN obj.value
    ELSE IF IsIndicator(obj) /\ "name" \in DOMAIN obj THEN obj.name
    ELSE "None"

\* C18: two objects of one kind made from source values that differ only in
\* letter case or in leading or trailing white space have the same id
\* (malware, observable, and the indicator with its pattern).
C18_SameIdWhateverCaseAndWhitespace ==
    \A i, j \in DOMAIN bundle :
        ( /\ bundle[i].type = bundle[j].type
          /\ SourceValue(bundle[i]) # "None"
          /\ NormalForm(SourceValue(bundle[i])) = NormalForm(SourceValue(bundle[j])) )
        => bundle[i].id = bundle[j].id

\* The works initiated and not yet marked as processed.
OpenWorks == {w \in DOMAIN works : works[w].processed = 0}

\* A worker thread's future completes in this step.
FetchCompletes ==
    \E c \in ReputationCollections : tasks[c] = "running" /\ tasks'[c] = "done"

\* The main thread has a collection in hand.
InHand == unit = "proofpoint" /\ pc \in {"generate", "send", "complete"}

\* C19: a worker thread only fetches: when its future completes, the object
\* list, the bundle, the works and the main thread's position stay as they
\* are.  The main thread handles one collection at a time: at most one work
\* is open, it is the work of the collection in hand, and the list given to
\* the sender holds objects of that collection only, whatever the order in
\* which the fetches complete.
C19_WorkersOnlyFetchOneCollectionAtATime ==
    /\ [][FetchCompletes =>
            UNCHANGED <<pc, collection, task_result, work_id, prepared_objects,
                        bundle, works, state>>]_vars
    /\ [](unit = "proofpoint" =>
            /\ Cardinality(OpenWorks) <= 1
            /\ InHand => /\ OpenWorks = {work_id}
                         /\ works[work_id].collection = collection
            /\ pc = "send" =>
                  \A i \in DOMAIN prepared_objects :
                      IsObservable(prepared_objects[i]) =>
                          prepared_objects[i].value \in Range(EntityNames(collection)))

\* The second collection of a cycle has its list generated after the first
\* one was generated, sent and completed.
C19_Witness ==
    /\ unit = "proofpoint" /\ pc = "send"
    /\ Len(works) = 2 /\ work_id = 2
    /\ works[1].bundles = 1 /\ works[1].processed = 1
    /\ works[1].collection # collection
    /\ \E i \in DOMAIN prepared_objects : IsObservable(prepared_objects[i])

\* C20: a call of fetch_data makes exactly one HTTP send and returns (it does
\* not raise).  When the send succeeds the result is the data of the answer,
\* unchanged, and the caller goes on with the collection.  When the send
\* fails in any way the result is a mapping with the texts 'error' and
\* 'message', and the caller skips the collection.
C20_FetchDataReturnsDataOrError ==
    (unit = "fetch_data" /\ pc # "fetch") =>
        /\ session_sends = 1
        /\ source.outcome = "ok" =>
              /\ task_result = ReputationData(source.data)
              /\ pc \in {"fetched", "initiate"}
        /\ source.outcome # "ok" =>
              /\ task_result.error \notin {"None", ""}
              /\ task_result.message \notin {"None", ""}
              /\ task_result.entries = <<>>
              /\ pc \in {"fetched", "skipped"}

\* A call that failed with a timeout and was skipped by the caller, and (in
\* another behaviour) a call that returned a list of two entities.
C20_Witness ==
    /\ unit = "fetch_data"
    /\ \/ pc = "skipped" /\ source.outcome = "Timeout"
       \/ pc = "initiate" /\ Len(task_result.entries) = MaxRecords

\* C21: every work initiated in a cycle is marked as processed exactly once
\* before the main thread goes on to the next collection and before the
\* cycle ends, whether generation and sending went through or raised; no
\* work is marked twice, and no collection has two works in a cycle.
C21_EveryWorkProcessedOnceOnePerCollection ==
    unit = "proofpoint" =>
        /\ \A w \in DOMAIN works : works[w].processed <= 1
        /\ \A c \in ReputationCollections : Cardinality(WorksOf(c)) <= 1
        /\ (pc = "as_completed" \/ (pc = "idle" /\ cycle_end = "committed")) =>
               \A w \in DOMAIN works : works[w].processed = 1

\* A cycle ended in which the work of one collection was completed after its
\* bundle was sent and the work of the other after sending raised.
C21_Witness ==
    /\ unit = "proofpoint" /\ pc = "idle" /\ cycle_end = "committed"
    /\ cycle_failed
    /\ Len(works) = 2
    /\ \E w \in DOMAIN works : works[w].bundles = 0 /\ works[w].processed = 1
    /\ \E w \in DOMAIN works : works[w].bundles = 1 /\ works[w].processed = 1

\* An enrichment connector with a message in hand or just answered.
Enriching ==
    \/ unit = "first" /\ pc \in {"process_message"} \cup FirstAnswers
    \/ unit = "malbeacon"

\* The TLP the entity of the message carries is greater than max_tlp.
EntityTlpAboveMax ==
    /\ EntityTlp(source.objectMarking) # "None"
    /\ TlpRank(EntityTlp(source.objectMarking)) > TlpRank(max_tlp)

\* C22: a request to the enrichment API is made and a bundle is sent for a
\* message only if the TLP marking of the message's entity is allowed by
\* max_tlp: for an entity whose TLP is greater than max_tlp there is no
\* request and no bundle.
C22_NoRequestNoBundleAboveMaxTlp ==
    (Enriching /\ EntityTlpAboveMax) => (api_requests = 0 /\ bundles_sent = 0)

\* FIRST has answered a message about a vulnerability in its scope marked
\* TLP:RED, and Malbeacon one about an observable marked TLP:RED.
C22_Witness ==
    /\ Enriching /\ EntityTlpAboveMax /\ pc = "error"
    /\ unit = "first" => entity_in_scope(source.stix_entity) /\ ~source.response.raises
    /\ unit = "malbeacon" => source.data.kind = "list"

\* C23: the TLP that was checked for a message is the one its entity carries:
\* when the entity carries no TLP marking the checked value is absent,
\* whatever the connector instance handled before.
C23_CheckedTlpIsTheEntitysOwn ==
    (unit = "first" /\ pc \in FirstAnswers) => tlp = EntityTlp(source.objectMarking)

\* The LastInfoSec loop logs "Connector successfully run, storing last_run
\* as <timestamp>" in this step, which ends the cycle.
LoggedSuccessfullyRun ==
    /\ unit = "lastinfosec" /\ pc # "idle" /\ pc' = "idle"
    /\ cycle_end' \in {"committed", "uncommitted"}

\* C24: when a LastInfoSec cycle ends with the run reported as successful,
\* with or without a "message" list in the response, the persisted last_run
\* is the timestamp taken at the start of that cycle.
C24_LastRunStoredAfterEverySuccessfulRun ==
    [][LoggedSuccessfullyRun => state' = NewState(timestamp)]_vars

\* The time the running cycle captured when it started.
CycleStart == IF unit = "proofpoint" THEN connector_start_timestamp ELSE timestamp

\* C25: the value written to last_run is the time the cycle captured when it
\* started, and the fetches of the cycle came after that time: it is never
\* the time of the write, which is later than the fetch.
C25_LastRunIsTheCycleStartTime ==
    [][(unit \in {"proofpoint", "lastinfosec"} /\ state' # state) =>
            /\ state' = <<CycleStart>>
            /\ CycleStart < now']_vars

\* ProofPoint has stored a last_run earlier than the time at which both
\* fetches of the cycle had completed.
C25_Witness ==
    /\ unit = "proofpoint" /\ pc = "idle" /\ cycle_end = "committed"
    /\ state # <<>> /\ state[1] + 2 <= now

\* The enrichment source answered the request of the message with no data.
NoDataReturned ==
    /\ unit = "first" /\ pc \in FirstAnswers
    /\ api_requests = 1 /\ ~source.response.raises /\ source.response.data = <<>>

\* C26: when the enrichment source returns no data for the CVE, no bundle is
\* sent and the answer is that no information was found, whatever objects
\* came with the message; a bundle is sent only when a vulnerability was
\* built from the response.
C26_NoDataNoBundle ==
    /\ NoDataReturned => (bundles_sent = 0 /\ pc = "no_information")
    /\ (unit = "first" /\ pc = "sent") => source.response.data # <<>>

\* The places of the bundle that hold an observable of the value.
ObservablesOf(objects, value) ==
    {i \in DOMAIN objects : IsObservable(objects[i]) /\ objects[i].value = value}

\* The bundle relates the base observable to an observable of the value.
RelatedToBase(objects, value) ==
    \E i \in ObservablesOf(objects, value) : \E j \in DOMAIN objects :
        /\ IsRelationship(objects[j])
        /\ objects[j].relationship_type = "related-to"
        /\ objects[j].source_ref = source.stix_entity.id
        /\ objects[j].target_ref = objects[i].id

\* C27: in the bundle of one process_c2 call every actor IP other than "NA"
\* has its observable once, however many entries carry it, and every actor
\* hostname other than "NA" of the entries has a domain observable related
\* to the base observable.
C27_EachActorIpOnceEveryHostnameRelated ==
    (unit = "malbeacon" /\ pc = "sent") =>
        \A k \in DOMAIN source.data.beacons :
            LET c2_beacon == source.data.beacons[k]
            IN  /\ c2_beacon.actorip # "NA" =>
                      Cardinality(ObservablesOf(bundle, c2_beacon.actorip)) = 1
                /\ c2_beacon.actorhostname # "NA" =>
                      RelatedToBase(bundle, c2_beacon.actorhostname)

\* The objects map_to_stix made for a row carry the label.
RowCarriesLabel(objects, element, label) ==
    \A i \in DOMAIN objects :
        (objects[i].type = "domain-name" /\ objects[i].value = element.hostname)
            => /\ "labels" \in DOMAIN objects[i]
               /\ \E l \in DOMAIN objects[i].labels : objects[i].labels[l] = label

\* C28: for every row of the report with a tag starting with "CVE", in any
\* letter case, a vulnerability named with the upper-cased tag is emitted and
\* the tag is among the labels of the row's objects, also when the tag field
\* holds that single tag and no ';'.
C28_VulnerabilityForEveryCveTag ==
    (unit = "shadowserver" /\ pc = "created") =>
        \A k \in DOMAIN source.report_list :
            LET element == source.report_list[k]
            IN  \A t \in DOMAIN element.tag :
                    StartsWithCVE(element.tag[t]) =>
                        /\ \E i \in DOMAIN bundle :
                              /\ bundle[i].type = "vulnerability"
                              /\ bundle[i].name = Upper(element.tag[t])
                        /\ RowCarriesLabel(bundle, element, element.tag[t])

\* The cyber observables the ShadowServer transformation emits.
ShadowServerObservable(obj) == obj.type \in {"artifact", "domain-name"}

\* The object carries the custom properties the connector prepares.
CarriesCustomProperties(obj) ==
    /\ "custom_properties" \in DOMAIN obj
    /\ {"external_references", "created_by_ref"} \subseteq obj.custom_properties

\* C29: the author identity the ShadowServer transformation emits carries the
\* connector's custom properties (external reference, labels, reliability
\* "A - Completely reliable", organization type), and every observable it
\* emits carries score 0 and those custom properties, for every labels list,
\* an empty one included.
C29_AuthorAndObservablesCarryCustomProperties ==
    (unit = "shadowserver" /\ pc = "created") =>
        \A i \in DOMAIN bundle :
            /\ bundle[i].type = "identity" =>
                  /\ "custom_properties" \in DOMAIN bundle[i]
                  /\ {"external_references", "x_opencti_reliability",
                      "x_opencti_organization_type"}
                         \subseteq bundle[i].custom_properties
                  /\ source.labels # <<>> =>
                         "x_opencti_labels" \in bundle[i].custom_properties
                  /\ bundle[i].reliability = "A - Completely reliable"
            /\ ShadowServerObservable(bundle[i]) =>
                  /\ CarriesCustomProperties(bundle[i])
                  /\ bundle[i].score = 0

\* The indicator object with the pattern of the item's data.
IndicatorOf(item) == generate_id("indicator", map_url(item.indicator_data))

\* C30: IndicatorsMapper.map goes through the source's "indicators" list
\* (empty when the key is absent or null) when the source has
\* "indicatorTotalCount", and through the source itself as the only item when
\* it has not, whatever other keys the source holds; it returns a bundle only
\* when at least one item has a supported indicator type, and items of an
\* unsupported type give no object.
C30_ItemsByIndicatorTotalCountBundleOnlyIfSupported ==
    (unit = "intel471" /\ pc \in {"mapped", "raised"}) =>
        LET list == IF source.indicators_key = "list" THEN source.indicators ELSE <<>>
            expected == IF source.indicatorTotalCount THEN list ELSE <<source.self>>
            supported == {k \in DOMAIN expected :
                            PatternMapperExists(expected[k].indicator_type)}
        IN  /\ \A i \in DOMAIN bundle :
                    IsIndicator(bundle[i]) =>
                        \E k \in supported : bundle[i].id = IndicatorOf(expected[k])
            /\ bundle # <<>> => supported # {}
            /\ pc = "mapped" =>
                    /\ \A k \in supported :
                            \E i \in DOMAIN bundle : bundle[i].id = IndicatorOf(expected[k])
                    /\ supported = {} => bundle = <<>>

\* A source without "indicatorTotalCount" that holds a key "indicators" with
\* another item is mapped as the only item: the bundle has its indicator and
\* not the other item's.
C30_Witness ==
    /\ unit = "intel471" /\ pc = "mapped"
    /\ ~source.indicatorTotalCount /\ source.indicators_key = "list"
    /\ source.self.indicator_type = "url"
    /\ source.indicators[1].indicator_type = "url"
    /\ source.indicators[1].indicator_data # source.self.indicator_data
    /\ \E i \in DOMAIN bundle : bundle[i].id = IndicatorOf(source.self)
    /\ \A i \in DOMAIN bundle : bundle[i].id # IndicatorOf(source.indicators[1])

====
